---- MODULE Spec2Model ----
(***************************************************************************)
(* Model of AirLoop's dataset indexing and sampling core                   *)
(* (src/datasets/base.py): DatasetBase (catalog population / snapshot,     *)
(* include_exclude, rand_split, __getitem__) and DefaultSampler.           *)
(*                                                                         *)
(* A catalog (the dict DatasetBase._seqs) is a sequence of entries         *)
(* [env, seqs] in dict insertion order.  Dict objects live in `heap`; a    *)
(* holder refers to its dict by heap index, so that copy(self) followed by *)
(* an assignment to _seqs is modelled with the sharing it has in Python.   *)
(* The lists inside a dict are never shared between two dicts by this code *)
(* (rand_split builds fresh lists, pickle.load builds fresh objects), so a *)
(* dict's lists are part of its heap value.                                *)
(***************************************************************************)
EXTENDS Integers, Sequences, FiniteSets, TLC

VARIABLES
    disk,       \* the snapshot file <catalog_dir>/<name>.pbz2
    heap,       \* the dict objects that are some holder's _seqs
    holders,    \* the DatasetBase objects built so far
    nDir,       \* constructions given the catalog directory so far
    nNoDir,     \* constructions given no catalog directory so far
    nPopulate,  \* calls of _populate so far
    nWrite,     \* times the snapshot file was opened for writing
    firstPop,   \* what the first population under a catalog dir produced
    built,      \* the construction that has just returned, if that was the last call
    filtered,   \* the include_exclude call that has just returned, if that was the last call
    splits,     \* every rand_split call so far, with the subsets it returned
    drawn,      \* default_rng(seed).permutation(total), as far as observed
    npRandom,   \* draws the rest of the program made from the ambient np.random
    size,       \* the concrete dataset's get_size, per (env, seq)
    ret,        \* the __getitem__ call that has just returned or failed
    sampler,    \* the DefaultSampler built, with its construction arguments
    it          \* the iterator last returned by iter(sampler), and what it yielded

vars == <<disk, heap, holders, nDir, nNoDir, nPopulate, nWrite, firstPop, built, filtered,
          splits, drawn, npRandom, size, ret, sampler, it>>

itemVars == <<size, ret>>
samplerVars == <<sampler, it>>

----------------------------------------------------------------------------
(* Bounds of the model *)

MaxHolders == 4     \* DatasetBase objects in one run of the catalog store
MaxSplits == 2      \* rand_split calls in one run
MaxPairs == 3       \* (environment, sequence) pairs that _populate may find
MaxSize == 4        \* frames of one sequence
MaxFrames == 6      \* frames, over all sequences, of a dataset that is sampled
MaxBatch == 2       \* batch_size
MaxDraws == 1       \* changes of np.random's state made by the rest of the program

EnvIds == <<"a", "b">>
SeqIds == <<"s1", "s2">>
NoPattern == "<None>"
Patterns == {NoPattern, "", "a_", "s1", "b_s2"}
Seeds == {42, 7}
Ratios == {<<1>>, <<7, 3>>, <<1, 1, 0>>}

----------------------------------------------------------------------------
(* Python list and dict helpers *)

Min(a, b) == IF a < b THEN a ELSE b
Max(a, b) == IF a < b THEN b ELSE a

Range(s) == {s[i] : i \in 1..Len(s)}

\* s[a:b] for 0 <= a, 0 <= b: clipped to the list, empty when a >= b
Slice(s, a, b) ==
    IF a >= Min(b, Len(s)) THEN <<>> ELSE SubSeq(s, a + 1, Min(b, Len(s)))

RECURSIVE Sum(_)
Sum(s) == IF s = <<>> THEN 0 ELSE Head(s) + Sum(Tail(s))

RECURSIVE Concat(_)
Concat(ss) == IF ss = <<>> THEN <<>> ELSE Head(ss) \o Concat(Tail(ss))

\* list.remove(x): drops the first occurrence
RECURSIVE ListRemove(_, _)
ListRemove(s, x) ==
    IF s = <<>> THEN <<>>
    ELSE IF Head(s) = x THEN Tail(s)
    ELSE <<Head(s)>> \o ListRemove(Tail(s), x)

HasEnv(cat, env) == \E i \in 1..Len(cat) : cat[i].env = env

\* dict[env]
SeqsOf(cat, env) == cat[CHOOSE i \in 1..Len(cat) : cat[i].env = env].seqs

\* dict[env] = seqs for a key that is present
DictSet(cat, env, seqs) ==
    [i \in 1..Len(cat) |-> IF cat[i].env = env THEN [env |-> env, seqs |-> seqs] ELSE cat[i]]

\* dict.pop(env)
DictPop(cat, env) == SelectSeq(cat, LAMBDA e : e.env # env)

\* dict.setdefault(env, []).append(seq)
SetDefaultAppend(cat, env, seq) ==
    IF HasEnv(cat, env) THEN DictSet(cat, env, Append(SeqsOf(cat, env), seq))
    ELSE Append(cat, [env |-> env, seqs |-> <<seq>>])

GetEnvSeqs(cat) ==
    Concat([i \in 1..Len(cat) |->
              [j \in 1..Len(cat[i].seqs) |-> <<cat[i].env, cat[i].seqs[j]>>]])

PairsOf(cat) == Range(GetEnvSeqs(cat))

get_seq_id(env, seq) == env \o "_" \o seq

\* re.compile(pat).search(key) is not None, for a pattern without metacharacters
Search(pat, key) ==
    \E i \in 1..(Len(key) - Len(pat) + 1) : SubSeq(key, i, i + Len(pat) - 1) = pat

----------------------------------------------------------------------------
(* What the concrete dataset's _populate may produce.  _populate is not    *)
(* part of base.py; it sets _seqs and any further attributes, and returns  *)
(* the names of those to persist.  Catalogs it produces have no            *)
(* environment with an empty list.                                         *)

\* the lists that keep some of the elements of s, in the order of s
SubLists(s) ==
    {SelectSeq(s, LAMBDA x : x \in keep) : keep \in SUBSET Range(s)}

Catalogs ==
    { SelectSeq([i \in 1..Len(EnvIds) |-> [env |-> EnvIds[i], seqs |-> l[i]]],
                LAMBDA e : e.seqs # <<>>) :
        l \in {m \in [1..Len(EnvIds) -> SubLists(SeqIds)] :
                  Sum([i \in 1..Len(EnvIds) |-> Len(m[i])]) <= MaxPairs} }

\* the scans of one dataset root at different times, for the runs that follow
\* the snapshot file; attributes are a set of <<name, value>>, one value per name
RootScans ==
    { [seqs |-> <<[env |-> "a", seqs |-> <<"s1", "s2">>], [env |-> "b", seqs |-> <<"s1">>]>>,
       attrs |-> {<<"lims", 1>>, <<"tmp", 1>>}, declared |-> <<"lims">>],
      [seqs |-> <<[env |-> "b", seqs |-> <<"s2">>]>>,
       attrs |-> {<<"lims", 2>>}, declared |-> <<>>] }

NoFile == [exists |-> FALSE, seqs |-> <<>>, attrs |-> {}]
NoBuilt == [n |-> 0, dir |-> FALSE, populated |-> FALSE, seqs |-> <<>>, attrs |-> {}]
NoFiltered == [h |-> 0, include |-> NoPattern, exclude |-> NoPattern]

----------------------------------------------------------------------------
(* DatasetBase.__init__ *)

\* a constructor that never finds the snapshot, and populates and stores again
SnapshotNeverFound(hasDir) == FALSE

\* catalog_dir is given and catalog_path.is_file()
SnapshotAvailable(hasDir) == hasDir /\ disk.exists

\* {attr: getattr(self, attr) for attr in ['_seqs'] + self._populate()}
StateDict(o) ==
    [exists |-> TRUE, seqs |-> o.seqs,
     attrs |-> {p \in o.attrs : p[1] \in Range(o.declared)}]

Construct(hasDir, o) ==
    /\ Len(holders) < MaxHolders
    /\ nDir' = IF hasDir THEN nDir + 1 ELSE nDir
    /\ nNoDir' = IF hasDir THEN nNoDir ELSE nNoDir + 1
    /\ LET load == SnapshotAvailable(hasDir)
           \* pickle.load gives fresh objects; setattr restores every key
           final == IF load THEN [seqs |-> disk.seqs, attrs |-> disk.attrs]
                    ELSE [seqs |-> o.seqs, attrs |-> o.attrs]
           store == hasDir /\ ~load
       IN  /\ heap' = Append(heap, final.seqs)
           /\ holders' = Append(holders, [seqs |-> Len(heap) + 1, attrs |-> final.attrs])
           /\ nPopulate' = IF load THEN nPopulate ELSE nPopulate + 1
           /\ disk' = IF store THEN StateDict(o) ELSE disk
           /\ nWrite' = IF store THEN nWrite + 1 ELSE nWrite
           /\ firstPop' = IF store /\ ~firstPop.exists THEN StateDict(o) ELSE firstPop
           /\ built' = [n |-> Len(holders) + 1, dir |-> hasDir, populated |-> ~load,
                        seqs |-> final.seqs, attrs |-> final.attrs]
    /\ filtered' = NoFiltered
    /\ UNCHANGED <<splits, drawn, npRandom, itemVars, samplerVars>>

----------------------------------------------------------------------------
(* DatasetBase.include_exclude *)

\* the condition under which the loop removes the pair
Rejected(include, exclude, seq_id) ==
    \/ include # NoPattern /\ ~Search(include, seq_id)
    \/ exclude # NoPattern /\ Search(exclude, seq_id)

\* a removal that leaves the emptied environment in the dict
RemovePairNoPrune(cat, env, seq) == DictSet(cat, env, ListRemove(SeqsOf(cat, env), seq))

\* self.seqs[env].remove(seq), then self.seqs.pop(env) if the list is empty
RemovePair(cat, env, seq) ==
    LET left == ListRemove(SeqsOf(cat, env), seq)
    IN  IF left = <<>> THEN DictPop(cat, env) ELSE DictSet(cat, env, left)

RECURSIVE FilterLoop(_, _, _, _)
FilterLoop(cat, pairs, include, exclude) ==
    IF pairs = <<>> THEN cat
    ELSE LET env == Head(pairs)[1]
             seq == Head(pairs)[2]
         IN  FilterLoop(IF Rejected(include, exclude, get_seq_id(env, seq))
                           THEN RemovePair(cat, env, seq) ELSE cat,
                        Tail(pairs), include, exclude)

\* the loop runs over the list get_env_seqs() returned before any removal
include_exclude(cat, include, exclude) ==
    FilterLoop(cat, GetEnvSeqs(cat), include, exclude)

IncludeExclude(h, include, exclude) ==
    /\ h \in 1..Len(holders)
    /\ heap' = [heap EXCEPT ![holders[h].seqs] = include_exclude(@, include, exclude)]
    /\ filtered' = [h |-> h, include |-> include, exclude |-> exclude]
    /\ built' = NoBuilt
    /\ UNCHANGED <<disk, holders, nDir, nNoDir, nPopulate, nWrite, firstPop, splits, drawn,
                   npRandom, itemVars, samplerVars>>

----------------------------------------------------------------------------
(* DatasetBase.rand_split *)

\* np.round(n / d) for n >= 0, d > 0: to the nearest integer, halves to even
RoundHalfEven(n, d) ==
    LET q == n \div d
        r == n % d
    IN  IF 2 * r < d THEN q
        ELSE IF 2 * r > d THEN q + 1
        ELSE IF q % 2 = 0 THEN q ELSE q + 1

\* np.cumsum(np.round(ratio / sum(ratio) * total), dtype=np.int)[:-1]
SplitIdx(ratio, total) ==
    [i \in 1..(Len(ratio) - 1) |->
        Sum([j \in 1..i |-> RoundHalfEven(ratio[j] * total, Sum(ratio))])]

\* a split whose pieces start one element early
NpSplitOverlapping(ary, idx) ==
    [i \in 1..(Len(idx) + 1) |->
        Slice(ary, IF i = 1 THEN 0 ELSE Max(0, idx[i - 1] - 1),
                   IF i = Len(idx) + 1 THEN Len(ary) ELSE idx[i])]

\* np.split(ary, idx): ary[0:idx[0]], ary[idx[0]:idx[1]], ..., ary[idx[-1]:]
NpSplit(ary, idx) ==
    [i \in 1..(Len(idx) + 1) |->
        Slice(ary, IF i = 1 THEN 0 ELSE idx[i - 1],
                   IF i = Len(idx) + 1 THEN Len(ary) ELSE idx[i])]

\* the permutations of 0..n-1
Perms0(n) == {[i \in 1..n |-> p[i] - 1] : p \in Permutations(1..n)}

\* np.random.permutation(total): the ambient generator, whatever the seed
UnseededPermutations(seed, total) == Perms0(total)

\* np.random.default_rng(seed=seed).permutation(total): a fresh generator, whose
\* output is a function of (seed, total) that the model does not compute
SeededPermutations(seed, total) ==
    IF \E d \in drawn : d[1] = seed /\ d[2] = total
    THEN {d[3] : d \in {e \in drawn : e[1] = seed /\ e[2] = total}}
    ELSE Perms0(total)

RECURSIVE TakeInto(_, _, _)
\* for env, seq in np.take(env_seqs, perm): subset.seqs.setdefault(env, []).append(seq)
TakeInto(cat, env_seqs, perm) ==
    IF perm = <<>> THEN cat
    ELSE LET p == env_seqs[Head(perm) + 1]
         IN  TakeInto(SetDefaultAppend(cat, p[1], p[2]), env_seqs, Tail(perm))

\* perm = sorted(perm); subset._seqs = {}; the loop above
SubsetCatalog(env_seqs, perm) ==
    TakeInto(<<>>, env_seqs, SortSeq(perm, LAMBDA a, b : a < b))

\* the catalogs of the subsets, in the order returned
rand_split(cat, ratio, permutation) ==
    LET env_seqs == GetEnvSeqs(cat)
        pieces == NpSplit(permutation, SplitIdx(ratio, Len(env_seqs)))
    IN  [i \in 1..Len(pieces) |-> SubsetCatalog(env_seqs, pieces[i])]

\* a subset that keeps the dict of the parent it was copied from
SubsetHolderShared(parent, dictId) == [seqs |-> parent.seqs, attrs |-> parent.attrs]

\* subset = copy(self): the attributes of the parent; subset._seqs = {}: a new dict
SubsetHolder(parent, dictId) == [seqs |-> dictId, attrs |-> parent.attrs]

RandSplit(h, ratio, seed) ==
    /\ h \in 1..Len(holders)
    /\ Len(splits) < MaxSplits
    /\ LET cat == heap[holders[h].seqs]
           total == Len(GetEnvSeqs(cat))
       IN  \E perm \in SeededPermutations(seed, total) :
             LET subsets == rand_split(cat, ratio, perm)
             IN  /\ drawn' = drawn \cup {<<seed, total, perm>>}
                 /\ heap' = heap \o subsets
                 /\ holders' = holders \o
                       [i \in 1..Len(subsets) |-> SubsetHolder(holders[h], Len(heap) + i)]
                 /\ splits' = Append(splits, [h |-> h, cat |-> cat, ratio |-> ratio,
                                              seed |-> seed,
                                              first |-> Len(holders) + 1,
                                              subsets |-> subsets])
    /\ built' = NoBuilt
    /\ filtered' = NoFiltered
    /\ UNCHANGED <<disk, nDir, nNoDir, nPopulate, nWrite, firstPop, npRandom, itemVars, samplerVars>>

\* the rest of the program changes the state of the ambient generator np.random
\* (np.random.seed in train.py, or a draw from it)
AmbientDraw ==
    /\ npRandom < MaxDraws
    /\ npRandom' = npRandom + 1
    /\ UNCHANGED <<disk, heap, holders, nDir, nNoDir, nPopulate, nWrite, firstPop, built, filtered,
                   splits, drawn, itemVars, samplerVars>>

----------------------------------------------------------------------------
(* DatasetBase.__getitem__ *)

\* what getitem_impl may return: one value that is not a tuple, or a tuple of values
ImplResults ==
    { [tuple |-> FALSE, one |-> "image", many |-> <<>>],
      [tuple |-> TRUE, one |-> "", many |-> <<"image", "depth">>] }

NoRet == [called |-> FALSE, index |-> <<"", "", 0>>, failure |-> "", sized |-> FALSE,
          fetched |-> FALSE, impl |-> [tuple |-> TRUE, one |-> "", many |-> <<>>], value |-> <<>>]

\* a bound check that admits the index one past the end
IndexInBoundInclusive(idx, n) == 0 <= idx /\ idx <= n

\* 0 <= idx < self.get_size(env, seq)
IndexInBound(idx, n) == 0 <= idx /\ idx < n

\* the three assertions, in order: the message of the first that fails, or ""
Validate(cat, sizes, env, seq, idx) ==
    IF ~HasEnv(cat, env) THEN "No such environment"
    ELSE IF seq \notin Range(SeqsOf(cat, env)) THEN "No such sequence"
    ELSE IF ~IndexInBound(idx, sizes[<<env, seq>>]) THEN "Index out of bound"
    ELSE ""

\* item = (item,) if not isinstance(item, tuple) else item
Wrapped(r) == IF ~r.tuple THEN <<r.one>> ELSE r.many

\* item + ((env, seq, idx),)
ItemValue(r, env, seq, idx) == Wrapped(r) \o <<<<env, seq, idx>>>>

GetItem(h, env, seq, idx, r) ==
    /\ h \in 1..Len(holders)
    /\ LET cat == heap[holders[h].seqs]
           failure == Validate(cat, size, env, seq, idx)
       IN  ret' = [called |-> TRUE, index |-> <<env, seq, idx>>, failure |-> failure,
                   \* get_size is reached once the first two assertions passed
                   sized |-> failure \in {"", "Index out of bound"},
                   fetched |-> failure = "",
                   impl |-> r,
                   value |-> IF failure = "" THEN ItemValue(r, env, seq, idx) ELSE <<>>]
    /\ built' = NoBuilt
    /\ filtered' = NoFiltered
    /\ UNCHANGED <<disk, heap, holders, nDir, nNoDir, nPopulate, nWrite, firstPop,
                   splits, drawn, npRandom, size, samplerVars>>

----------------------------------------------------------------------------
(* DefaultSampler *)

ShuffleModes == {"none", "seq", "batch", "env", "all"}

\* an absent entry of itertools.zip_longest, shaped like a triple
NoneEntry == <<"<None>", "<None>", -1>>

NoSampler == [built |-> FALSE, bs |-> 0, shuffle |-> "none", overlap |-> FALSE,
              cat |-> <<>>, batches |-> <<>>, made |-> <<>>]
NoIter == [started |-> FALSE, restarted |-> FALSE, done |-> FALSE, pos |-> 0,
           yielded |-> <<>>]

\* np.arange(0, stop, step)
Arange(stop, step) ==
    [i \in 1..(IF stop <= 0 THEN 0 ELSE (stop + step - 1) \div step) |-> (i - 1) * step]

\* the orders np.random.shuffle may leave a list in
Shuffles(s) == {[i \in 1..Len(s) |-> s[p[i]]] : p \in Permutations(1..Len(s))}

\* every sequence listed with the size of the sequence at the mirrored position
SeqSizesMirrored(cat, sizes) ==
    LET env_seqs == GetEnvSeqs(cat)
    IN  [i \in 1..Len(env_seqs) |->
           [env_seq |-> env_seqs[i], size |-> sizes[env_seqs[Len(env_seqs) + 1 - i]]]]

\* [(env_seq, dataset.get_size(*env_seq)) for env_seq in dataset.get_env_seqs()]
SeqSizes(cat, sizes) ==
    LET env_seqs == GetEnvSeqs(cat)
    IN  [i \in 1..Len(env_seqs) |-> [env_seq |-> env_seqs[i], size |-> sizes[env_seqs[i]]]]

\* start offsets that leave the last window out only when it would run past the end
BatchStartsToEnd(sz, bs, overlap) == Arange(sz, IF overlap THEN 1 ELSE bs)

\* b_start = np.arange(0, size - self.bs, 1 if overlap else self.bs)
BatchStarts(sz, bs, overlap) == Arange(sz - bs, IF overlap THEN 1 ELSE bs)

\* batches that tile the whole sequence, the last one short
SeqBatchesTiled(env_seq, sz, bs, overlap) ==
    LET b_start == Arange(sz, IF overlap THEN 1 ELSE bs)
    IN  [k \in 1..Len(b_start) |->
           [j \in 1..Min(bs, sz - b_start[k]) |->
               <<env_seq[1], env_seq[2], b_start[k] + j - 1>>]]

\* [[env_seq + (idx,) for idx in frame_idx[st:st+self.bs]] for st in b_start]
SeqBatches(env_seq, sz, bs, overlap) ==
    LET frame_idx == [i \in 1..sz |-> i - 1]
        b_start == BatchStarts(sz, bs, overlap)
    IN  [k \in 1..Len(b_start) |->
           LET idxs == Slice(frame_idx, b_start[k], b_start[k] + bs)
           IN  [j \in 1..Len(idxs) |-> <<env_seq[1], env_seq[2], idxs[j]>>]]

\* the lists made of one choice from each set, concatenated in order
RECURSIVE ConcatChoices(_)
ConcatChoices(sets) ==
    IF sets = <<>> THEN {<<>>}
    ELSE {h \o t : h \in Head(sets), t \in ConcatChoices(Tail(sets))}

\* batches cut from one run of frames that goes on from a sequence into the next
MasterListsAcross(seq_sizes, bs, shuffle, overlap) ==
    LET frames == Concat([i \in 1..Len(seq_sizes) |->
                      [j \in 1..seq_sizes[i].size |->
                          <<seq_sizes[i].env_seq[1], seq_sizes[i].env_seq[2], j - 1>>]])
    IN  {[k \in 1..(Len(frames) \div bs) |-> SubSeq(frames, (k - 1) * bs + 1, k * bs)]}

\* the loop over seq_sizes: each sequence's batches, shuffled under 'batch', appended
MasterLists(seq_sizes, bs, shuffle, overlap) ==
    ConcatChoices([i \in 1..Len(seq_sizes) |->
        LET batch == SeqBatches(seq_sizes[i].env_seq, seq_sizes[i].size, bs, overlap)
        IN  IF shuffle = "batch" THEN Shuffles(batch) ELSE {batch}])

\* one group of all the triples, whatever their environment
GroupTogether(triples) == IF triples = <<>> THEN <<>> ELSE <<triples>>

\* itertools.groupby(all_batches, lambda b: b[0]): runs of equal environment
RECURSIVE GroupByEnv(_)
GroupByEnv(triples) ==
    IF triples = <<>> THEN <<>>
    ELSE LET rest == GroupByEnv(Tail(triples))
         IN  IF rest # <<>> /\ Head(rest)[1][1] = Head(triples)[1]
             THEN <<<<Head(triples)>> \o Head(rest)>> \o Tail(rest)
             ELSE <<<<Head(triples)>>>> \o rest

\* itertools.zip_longest(*([iter(s)] * n)): chunks of n, the last filled with None
Chunks(s, n) ==
    [k \in 1..((Len(s) + n - 1) \div n) |->
        [j \in 1..n |-> IF (k - 1) * n + j <= Len(s) THEN s[(k - 1) * n + j] ELSE NoneEntry]]

\* the 'env' / 'all' branch: flatten, group by environment, shuffle each group, re-slice
Resliced(batches, bs) ==
    LET groups == GroupByEnv(Concat(batches))
    IN  ConcatChoices([g \in 1..Len(groups) |->
            {Chunks(env_batches, bs) : env_batches \in Shuffles(groups[g])}])

\* every batch list the constructor may end with
SamplerBatches(cat, sizes, bs, shuffle, overlap) ==
    LET listed == SeqSizes(cat, sizes)
        orders == IF shuffle = "seq" THEN Shuffles(listed) ELSE {listed}
        masters == UNION {MasterLists(o, bs, shuffle, overlap) : o \in orders}
        sliced == IF shuffle \in {"env", "all"}
                  THEN UNION {Resliced(m, bs) : m \in masters} ELSE masters
    IN  IF shuffle = "all" THEN UNION {Shuffles(b) : b \in sliced} ELSE sliced

NewSampler(h, bs, shuffle, overlap) ==
    /\ h \in 1..Len(holders)
    /\ ~sampler.built
    /\ LET cat == heap[holders[h].seqs]
       IN  \E batches \in SamplerBatches(cat, size, bs, shuffle, overlap) :
              sampler' = [built |-> TRUE, bs |-> bs, shuffle |-> shuffle, overlap |-> overlap,
                          cat |-> cat, batches |-> batches, made |-> batches]
    /\ built' = NoBuilt
    /\ filtered' = NoFiltered
    /\ UNCHANGED <<disk, heap, holders, nDir, nNoDir, nPopulate, nWrite, firstPop,
                   splits, drawn, npRandom, itemVars, it>>

\* an __iter__ that builds the list again from the dataset, in catalog order
IterListRebuilt(h) ==
    Concat([i \in 1..Len(GetEnvSeqs(heap[holders[h].seqs])) |->
        SeqBatches(GetEnvSeqs(heap[holders[h].seqs])[i],
                   size[GetEnvSeqs(heap[holders[h].seqs])[i]], sampler.bs, sampler.overlap)])

\* the list that iter(self.batches) walks
IterList(h) == sampler.batches

\* __iter__: a new iterator at the start of the list
IterStart ==
    /\ sampler.built
    /\ it' = [started |-> TRUE, restarted |-> it.started, done |-> FALSE, pos |-> 0,
              yielded |-> <<>>]
    /\ built' = NoBuilt
    /\ filtered' = NoFiltered
    /\ UNCHANGED <<disk, heap, holders, nDir, nNoDir, nPopulate, nWrite, firstPop,
                   splits, drawn, npRandom, itemVars, sampler>>

\* next(iterator): the next batch, or StopIteration at the end of the list
IterNext ==
    /\ it.started
    /\ ~it.done
    /\ it' = IF it.pos < Len(IterList(1))
             THEN [it EXCEPT !.pos = @ + 1, !.yielded = Append(@, IterList(1)[it.pos + 1])]
             ELSE [it EXCEPT !.done = TRUE]
    /\ built' = NoBuilt
    /\ filtered' = NoFiltered
    /\ UNCHANGED <<disk, heap, holders, nDir, nNoDir, nPopulate, nWrite, firstPop,
                   splits, drawn, npRandom, itemVars, sampler>>

\* __len__
SamplerLen == Len(sampler.batches)

----------------------------------------------------------------------------
(* The catalog store: constructions under one catalog directory and name,  *)
(* with filtering and splitting of the holders built.                      *)

NoSize == <<>>

Init ==
    /\ disk = NoFile
    /\ heap = <<>>
    /\ holders = <<>>
    /\ nDir = 0
    /\ nNoDir = 0
    /\ nPopulate = 0
    /\ nWrite = 0
    /\ firstPop = NoFile
    /\ built = NoBuilt
    /\ filtered = NoFiltered
    /\ splits = <<>>
    /\ drawn = {}
    /\ npRandom = 0
    /\ size = NoSize
    /\ ret = NoRet
    /\ sampler = NoSampler
    /\ it = NoIter

Next ==
    \/ \E hasDir \in BOOLEAN, o \in RootScans : Construct(hasDir, o)
    \/ \E h \in 1..Len(holders) : IncludeExclude(h, "a_", "s2")
    \/ \E h \in 1..Len(holders) :
          Len(holders) + 2 <= MaxHolders /\ RandSplit(h, <<1, 1>>, 42)

Spec == Init /\ [][Next]_vars

----------------------------------------------------------------------------
(* One dataset built without a catalog directory, whatever its _populate   *)
(* found: splitting it, and filtering it.                                  *)

InitOne ==
    /\ \E c \in Catalogs :
          /\ heap = <<c>>
          /\ holders = <<[seqs |-> 1, attrs |-> {}]>>
    /\ disk = NoFile
    /\ nDir = 0
    /\ nNoDir = 1
    /\ nPopulate = 1
    /\ nWrite = 0
    /\ firstPop = NoFile
    /\ built = NoBuilt
    /\ filtered = NoFiltered
    /\ splits = <<>>
    /\ drawn = {}
    /\ npRandom = 0
    /\ size = NoSize
    /\ ret = NoRet
    /\ sampler = NoSampler
    /\ it = NoIter

NextSplit ==
    \/ \E ratio \in Ratios, seed \in Seeds : RandSplit(1, ratio, seed)
    \/ AmbientDraw

SpecSplit == InitOne /\ [][NextSplit]_vars

NextFilter ==
    \E h \in 1..Len(holders), include \in Patterns, exclude \in Patterns :
       IncludeExclude(h, include, exclude)

SpecFilter == InitOne /\ [][NextFilter]_vars

----------------------------------------------------------------------------
(* One dataset with its size oracle: indexing it, and sampling from it.    *)

InitSized(sizes, maxFrames) ==
    /\ \E c \in Catalogs :
          /\ heap = <<c>>
          /\ size \in {f \in [PairsOf(c) -> sizes] :
                         Sum([i \in 1..Len(GetEnvSeqs(c)) |-> f[GetEnvSeqs(c)[i]]]) <= maxFrames}
    /\ holders = <<[seqs |-> 1, attrs |-> {}]>>
    /\ disk = NoFile
    /\ nDir = 0
    /\ nNoDir = 1
    /\ nPopulate = 1
    /\ nWrite = 0
    /\ firstPop = NoFile
    /\ built = NoBuilt
    /\ filtered = NoFiltered
    /\ splits = <<>>
    /\ drawn = {}
    /\ npRandom = 0
    /\ ret = NoRet
    /\ sampler = NoSampler
    /\ it = NoIter

NextItem ==
    \E env \in Range(EnvIds) \cup {"zz"}, seq \in Range(SeqIds) \cup {"zz"},
       idx \in -1..MaxSize, r \in ImplResults :
       GetItem(1, env, seq, idx, r)

SpecItem == InitSized({0, MaxSize}, MaxPairs * MaxSize) /\ [][NextItem]_vars

NextSampler ==
    \E bs \in 1..MaxBatch, shuffle \in ShuffleModes, overlap \in BOOLEAN :
       NewSampler(1, bs, shuffle, overlap)

SpecSampler == InitSized(0..MaxSize, MaxFrames) /\ [][NextSampler]_vars

\* a sampler built with each sequence's batches shuffled (__iter__ and __len__ read
\* self.batches whatever the mode was), then iterated while the dataset is filtered
\* and the program draws from np.random
NextIterate ==
    \/ \E bs \in 1..MaxBatch, overlap \in BOOLEAN : NewSampler(1, bs, "batch", overlap)
    \/ IterStart
    \/ IterNext
    \/ IncludeExclude(1, NoPattern, "s1")
    \/ AmbientDraw

SpecIterate == InitSized(0..MaxSize, MaxFrames) /\ [][NextIterate]_vars

----------------------------------------------------------------------------
(* Properties of the catalog store *)

\* C1: rand_split returns one subset per ratio, and the subsets' (environment,
\* sequence) pairs partition the parent's pairs: every parent pair is in exactly
\* one subset, once, and no subset holds a pair the parent has not.
C1_SplitPartitions ==
    \A n \in 1..Len(splits) :
       LET e == splits[n]
           k == Len(e.subsets)
           \* the pairs of the subsets, one after the other
           all == Concat([i \in 1..k |-> GetEnvSeqs(e.subsets[i])])
       IN  /\ k = Len(e.ratio)
           /\ Range(all) = PairsOf(e.cat)
           /\ Cardinality(Range(all)) = Len(all)

\* a split of three pairs into three subsets, two of them non-empty
C1_Witness ==
    \E n \in 1..Len(splits) :
       /\ Len(splits[n].ratio) = 3
       /\ Len(GetEnvSeqs(splits[n].cat)) = 3
       /\ splits[n].subsets[1] # <<>>
       /\ splits[n].subsets[2] # <<>>

\* C7: when include_exclude returns, every pair left in the catalog has a SeqKey
\* that the include pattern (if given) matches somewhere and the exclude pattern
\* (if given) matches nowhere, and no environment is left with an empty list.
C7_FilterCorrect ==
    filtered.h # 0 =>
       LET cat == heap[holders[filtered.h].seqs]
       IN  /\ \A p \in PairsOf(cat) :
                 /\ filtered.include # NoPattern => Search(filtered.include, get_seq_id(p[1], p[2]))
                 /\ filtered.exclude # NoPattern => ~Search(filtered.exclude, get_seq_id(p[1], p[2]))
           /\ \A i \in 1..Len(cat) : cat[i].seqs # <<>>

\* both patterns given, an environment pruned and a pair left
C7_Witness ==
    /\ filtered.h # 0
    /\ filtered.include = "a_"
    /\ filtered.exclude = "s1"
    /\ GetEnvSeqs(heap[holders[filtered.h].seqs]) = <<<<"a", "s2">>>>

\* C8: two rand_split calls with the same ratios and seed on catalogs of the same
\* content and order return the same subsets, in the same order, with the same
\* environment and sequence order, whatever was drawn from np.random meanwhile.
C8_SplitDeterministic ==
    \A m, n \in 1..Len(splits) :
       (/\ splits[m].cat = splits[n].cat
        /\ splits[m].ratio = splits[n].ratio
        /\ splits[m].seed = splits[n].seed)
       => splits[m].subsets = splits[n].subsets

\* the same split asked twice, of a catalog that can be split in several ways,
\* with a draw from np.random made in the run
C8_Witness ==
    /\ Len(splits) >= 2
    /\ splits[1].cat = splits[2].cat
    /\ splits[1].ratio = splits[2].ratio
    /\ splits[1].seed = splits[2].seed
    /\ Len(splits[1].ratio) = 2
    /\ Len(GetEnvSeqs(splits[1].cat)) = 3
    /\ splits[1].subsets[1] # <<>>
    /\ splits[1].subsets[2] # <<>>
    /\ npRandom > 0

\* C9: under one catalog directory and name, _populate runs in the first
\* construction only, the snapshot is written once and stays what the first
\* population produced, and every later construction ends with the catalog and
\* the declared attributes of that first population; with no catalog directory
\* _populate runs in every construction and nothing is written.
C9_SnapshotLifecycle ==
    /\ nWrite = (IF nDir > 0 THEN 1 ELSE 0)
    /\ nPopulate = nNoDir + (IF nDir > 0 THEN 1 ELSE 0)
    /\ disk = firstPop
    /\ disk.exists <=> nDir > 0
    /\ built.n # 0 =>
          IF built.dir
          THEN /\ built.populated <=> nDir = 1
               /\ built.seqs = firstPop.seqs
               /\ firstPop.attrs \subseteq built.attrs
               /\ ~built.populated => built.attrs = firstPop.attrs
          ELSE built.populated

\* a second construction under the catalog directory, after the first holder
\* was split and filtered
C9_Witness ==
    /\ built.n # 0
    /\ built.dir
    /\ ~built.populated
    /\ built.attrs # {}
    /\ splits # <<>>
    /\ splits[1].h = 1
    /\ heap[holders[1].seqs] # built.seqs

\* C11: rand_split gives every subset but the last round(r_i / sum(r) * T) pairs,
\* and the last subset the T pairs less those of the others.
C11_SplitSizes ==
    \A n \in 1..Len(splits) :
       LET e == splits[n]
           k == Len(e.ratio)
           T == Len(GetEnvSeqs(e.cat))
           share == [i \in 1..k |-> RoundHalfEven(e.ratio[i] * T, Sum(e.ratio))]
       IN  /\ \A i \in 1..(k - 1) : Len(GetEnvSeqs(e.subsets[i])) = share[i]
           /\ Len(GetEnvSeqs(e.subsets[k])) = T - Sum(SubSeq(share, 1, k - 1))

\* C12: a rand_split step leaves the catalog of the parent and of every holder
\* that existed as it was, and gives every subset a dict of its own whose
\* get_env_seqs() is the parent's get_env_seqs() restricted to the subset's pairs,
\* in the parent's order; an include_exclude step, on the parent or on a subset,
\* changes the catalog of no holder but the one it was called on.
C12_SubsetsIndependent ==
    [][ /\ splits' # splits =>
             LET e == splits'[Len(splits')]
                 parentSeqs == GetEnvSeqs(e.cat)
             IN  /\ Len(holders') = Len(holders) + Len(e.ratio)
                 /\ \A g \in 1..Len(holders) :
                       /\ holders'[g] = holders[g]
                       /\ heap'[holders'[g].seqs] = heap[holders[g].seqs]
                 /\ \A g \in e.first..Len(holders') :
                       /\ \A g2 \in 1..Len(holders') :
                             g2 # g => holders'[g2].seqs # holders'[g].seqs
                       /\ LET mine == GetEnvSeqs(heap'[holders'[g].seqs])
                          IN  mine = SelectSeq(parentSeqs, LAMBDA p : p \in Range(mine))
        /\ filtered'.h # 0 =>
             /\ Len(holders') = Len(holders)
             /\ \A g \in 1..Len(holders) :
                   g # filtered'.h => heap'[holders'[g].seqs] = heap[holders[g].seqs]
      ]_vars

\* a subset of a split has just been filtered and lost a pair, and the parent has
\* the catalog it was split with
C12_Witness ==
    /\ splits # <<>>
    /\ filtered.h >= splits[1].first
    /\ filtered.h < splits[1].first + Len(splits[1].ratio)
    /\ heap[holders[filtered.h].seqs] # splits[1].subsets[filtered.h - splits[1].first + 1]
    /\ heap[holders[splits[1].h].seqs] = splits[1].cat
    /\ Len(GetEnvSeqs(splits[1].cat)) = 3

----------------------------------------------------------------------------
(* Properties of __getitem__ *)

\* C6: __getitem__((env, seq, idx)) fails with "No such environment" when env is
\* not a catalog key, otherwise with "No such sequence" when seq is not listed
\* under env, otherwise with "Index out of bound" unless 0 <= idx < get_size(env,
\* seq), and a failing call never reaches getitem_impl; a call that passes the
\* three checks returns getitem_impl's result (one element when it was not a
\* tuple) followed by (env, seq, idx).
C6_GetItemValidates ==
    ret.called =>
       LET cat == heap[holders[1].seqs]
           env == ret.index[1]
           seq == ret.index[2]
           idx == ret.index[3]
           knownEnv == \E i \in 1..Len(cat) : cat[i].env = env
           knownSeq == knownEnv /\ <<env, seq>> \in PairsOf(cat)
           inBound == knownSeq /\ idx >= 0 /\ idx < size[<<env, seq>>]
           n == Len(ret.value)
       IN  /\ ~knownEnv => ret.failure = "No such environment"
           /\ knownEnv /\ ~knownSeq => ret.failure = "No such sequence"
           /\ knownSeq /\ ~inBound => ret.failure = "Index out of bound"
           /\ ret.failure # "" => ~ret.fetched /\ ret.value = <<>>
           /\ inBound =>
                 /\ ret.failure = ""
                 /\ ret.fetched
                 /\ n >= 1
                 /\ ret.value[n] = <<env, seq, idx>>
                 /\ SubSeq(ret.value, 1, n - 1) =
                       (IF ret.impl.tuple THEN ret.impl.many ELSE <<ret.impl.one>>)

\* the last frame of a sequence fetched, getitem_impl returning a bare value
C6_Witness ==
    /\ ret.called
    /\ ret.fetched
    /\ ~ret.impl.tuple
    /\ ret.index[3] = size[<<ret.index[1], ret.index[2]>>] - 1
    /\ Len(ret.value) = 2

----------------------------------------------------------------------------
(* Properties of DefaultSampler *)

\* the batches of the list that hold frames of the (environment, sequence) pair p
BatchesOf(batches, p) ==
    LET Mine(b) == b # <<>> /\ b[1][1] = p[1] /\ b[1][2] = p[2]
    IN  SelectSeq(batches, Mine)

\* C2: with overlap=False and no shuffle, every sequence of size S >= 1 gets
\* ceil(S/B) batches whose frame indices, read in order, are 0, 1, ..., S-1, each
\* once (the last batch short when B does not divide S).
C2_TilingCovers ==
    (sampler.built /\ ~sampler.overlap /\ sampler.shuffle = "none") =>
       \A p \in PairsOf(sampler.cat) :
          size[p] >= 1 =>
             LET mine == BatchesOf(sampler.batches, p)
             IN  /\ Len(mine) = (size[p] + sampler.bs - 1) \div sampler.bs
                 /\ Concat(mine) = [i \in 1..size[p] |-> <<p[1], p[2], i - 1>>]

\* C3: with overlap=True and no shuffle, every sequence of size S gets exactly one
\* batch per start offset 0 .. S-B-1, the batch at offset o holding the B frames
\* o .. o+B-1, and nothing else; a sequence with S <= B gets no batch.
C3_OverlapOffsets ==
    (sampler.built /\ sampler.overlap /\ sampler.shuffle = "none") =>
       /\ \A p \in PairsOf(sampler.cat) :
             LET mine == BatchesOf(sampler.batches, p)
                 S == size[p]
                 B == sampler.bs
             IN  /\ Len(mine) = (IF S <= B THEN 0 ELSE S - B)
                 /\ \A o \in 0..(S - B - 1) :
                       Cardinality({k \in 1..Len(mine) :
                          mine[k] = [j \in 1..B |-> <<p[1], p[2], o + j - 1>>]}) = 1
       /\ Len(sampler.batches) =
             Sum([i \in 1..Len(GetEnvSeqs(sampler.cat)) |->
                     Len(BatchesOf(sampler.batches, GetEnvSeqs(sampler.cat)[i]))])

\* two sliding windows of two frames over one sequence, and a sequence that is
\* too short for a window
C3_Witness ==
    /\ sampler.built
    /\ sampler.overlap
    /\ sampler.shuffle = "none"
    /\ sampler.bs = 2
    /\ \E p, q \in PairsOf(sampler.cat) :
          /\ Len(BatchesOf(sampler.batches, p)) = 2
          /\ size[q] \in 1..2
          /\ BatchesOf(sampler.batches, q) = <<>>

\* C4: with shuffle None, 'seq' or 'batch', whatever the overlap and whatever the
\* shuffles did, all triples of a batch have the same (environment, sequence).
C4_OneSequencePerBatch ==
    (sampler.built /\ sampler.shuffle \in {"none", "seq", "batch"}) =>
       \A k \in 1..Len(sampler.batches) :
          \A i, j \in 1..Len(sampler.batches[k]) :
             /\ sampler.batches[k][i][1] = sampler.batches[k][j][1]
             /\ sampler.batches[k][i][2] = sampler.batches[k][j][2]

\* batches of two frames from two sequences, in an order no unshuffled run gives
C4_Witness ==
    /\ sampler.built
    /\ sampler.shuffle \in {"seq", "batch"}
    /\ sampler.bs = 2
    /\ Len(sampler.batches) >= 2
    /\ Len(sampler.batches[1]) = 2
    /\ \E k \in 2..Len(sampler.batches) :
          sampler.batches[k][1][2] # sampler.batches[1][1][2]
    /\ sampler.batches \notin
          SamplerBatches(sampler.cat, size, sampler.bs, "none", sampler.overlap)

\* C5: with shuffle 'env' or 'all', whatever the overlap and whatever the
\* shuffles did, all triples of a re-sliced batch have the same environment.
C5_OneEnvironmentPerBatch ==
    (sampler.built /\ sampler.shuffle \in {"env", "all"}) =>
       \A k \in 1..Len(sampler.batches) :
          \A i, j \in 1..Len(sampler.batches[k]) :
             (sampler.batches[k][i] # NoneEntry /\ sampler.batches[k][j] # NoneEntry)
                => sampler.batches[k][i][1] = sampler.batches[k][j][1]

\* re-sliced batches of two frames from two environments
C5_Witness ==
    /\ sampler.built
    /\ sampler.shuffle \in {"env", "all"}
    /\ sampler.bs = 2
    /\ \E k, l \in 1..Len(sampler.batches) :
          /\ Len(sampler.batches[k]) = 2
          /\ Len(sampler.batches[l]) = 2
          /\ sampler.batches[k][1][1] # sampler.batches[l][1][1]

\* C10: the batch list is the one made at construction: an iteration yields its
\* batches in its order, a finished iteration has yielded all of it and as many
\* batches as __len__ says, however often the iteration was restarted, whatever
\* was drawn from np.random and however the dataset was filtered meanwhile.
C10_BatchListFrozen ==
    sampler.built =>
       /\ it.yielded = SubSeq(sampler.made, 1, it.pos)
       /\ it.done => /\ it.yielded = sampler.made
                     /\ SamplerLen = Len(it.yielded)

\* a second iteration that ran to its end, over a shuffled list, after a draw from
\* np.random and a filtering that removed sequences from the dataset
C10_Witness ==
    /\ sampler.built
    /\ it.restarted
    /\ it.done
    /\ Len(it.yielded) >= 2
    /\ npRandom > 0
    /\ heap[holders[1].seqs] # sampler.cat
    /\ sampler.made \notin
          SamplerBatches(sampler.cat, size, sampler.bs, "none", sampler.overlap)

\* C13: every triple of every batch, whatever the shuffle mode and the overlap,
\* indexes the dataset the sampler was built from: its (environment, sequence) is
\* a pair of the catalog and its index is at least 0 and below get_size, so that
\* the three assertions of __getitem__ pass on the unfiltered catalog.
C13_TriplesValid ==
    sampler.built =>
       \A k \in 1..Len(sampler.batches) :
          \A j \in 1..Len(sampler.batches[k]) :
             LET t == sampler.batches[k][j]
             IN  /\ <<t[1], t[2]>> \in PairsOf(sampler.cat)
                 /\ t[3] >= 0
                 /\ t[3] < size[<<t[1], t[2]>>]
                 /\ Validate(sampler.cat, size, t[1], t[2], t[3]) = ""

\* a fully shuffled list of sliding windows over two sequences of different sizes
C13_Witness ==
    /\ sampler.built
    /\ sampler.shuffle = "all"
    /\ sampler.overlap
    /\ Len(sampler.batches) >= 3
    /\ \E k, l \in 1..Len(sampler.batches) :
          /\ sampler.batches[k][1][2] # sampler.batches[l][1][2]
          /\ size[<<sampler.batches[k][1][1], sampler.batches[k][1][2]>>] #
                size[<<sampler.batches[l][1][1], sampler.batches[l][1][2]>>]

\* C14: every batch of the list has exactly batch_size entries and every entry is
\* a triple, none the None that zip_longest fills a short chunk with, whatever
\* the shuffle mode, the overlap and the sequence sizes.
C14_BatchesFull ==
    sampler.built =>
       \A k \in 1..Len(sampler.batches) :
          /\ Len(sampler.batches[k]) = sampler.bs
          /\ \A j \in 1..Len(sampler.batches[k]) : sampler.batches[k][j] # NoneEntry

\* a re-sliced batch of two frames taken from two sequences of one environment
C14_Witness ==
    /\ sampler.built
    /\ sampler.shuffle \in {"env", "all"}
    /\ sampler.bs = 2
    /\ \E k \in 1..Len(sampler.batches) :
          /\ Len(sampler.batches[k]) = 2
          /\ sampler.batches[k][1][2] # sampler.batches[k][2][2]

====
